---- MODULE Spec2Model ----
(***************************************************************************)
(* A model of go.bug.st/downloader: DownloadWithConfig (resume planning,   *)
(* GET transfer, copy loop, progress polling) and the inactivity watchdog. *)
(* One call of DownloadWithConfig is the main goroutine (pc); the poll     *)
(* timer's callback and the watchdog timer run beside it.                  *)
(***************************************************************************)
EXTENDS Integers, Sequences, FiniteSets, TLC

\* ------------------------------------------------------------------ bounds
MaxRemote == 2      \* the remote resource has 0..MaxRemote bytes
MaxTimeout == 2     \* InactivityTimeout is 0 (disabled) or MaxTimeout ticks
MaxPolls == 1       \* the poll timer fires at most MaxPolls times per call
MaxCalls == 2       \* consecutive calls of DownloadWithConfig on the same file
BuffSize == 2       \* bytes one Read may return (the 4096-byte buffer, scaled)

\* ------------------------------------------------------------------ values
Canon(k) == [i \in 1..k |-> i]                 \* the canonical remote content
Junk(k) == [i \in 1..k |-> 0]                  \* a local file that is no copy of it
ErrBody == <<0 - 1>>                           \* the body of a non-2xx response
Unknown == 0 - 1                               \* ContentLength without Content-Length

IsPrefix(s, t) == Len(s) <= Len(t) /\ SubSeq(t, 1, Len(s)) = s
Drop(s, k) == SubSeq(s, k + 1, Len(s))
Min(a, b) == IF a < b THEN a ELSE b

Configs == [noResume : BOOLEAN, noErrStatus : BOOLEAN,
            timeout : {0, MaxTimeout}, poll : BOOLEAN]

VARIABLES
  config,          \* Config of the running call
  content,         \* the remote resource
  fileExists, fileData,   \* the target file on disk
  callNo,          \* which call of DownloadWithConfig this is
  pc,              \* position of the main goroutine
  localSize, remoteSize, serverCanResume, completed, resumeDownload,
  heads, gets,     \* HEAD / GET requests sent in this call
  rangeHdr,        \* offset of the Range header of the GET, Unknown if none
  getStatus,       \* status of the GET response, 0 if none
  headBody,        \* "none" | "open" | "closed"
  stream,          \* bytes of the GET response body not yet read
  bodyOpened, bodyCloses, outOpened, outCloses,
  buff, readErr,   \* result of the last Read
  retErr,          \* what the call returned ("pending" before it returns)
  callerCancelled, ctxDone, ctxCause,   \* caller's context, merged context
  wdTimer, wdLeft,    \* watchdog timer and the ticks left to its deadline
  idle,              \* ticks since the last chunk was counted
  pollTimer, pg, pgSnap, mainSnap, polls,  \* poll timer and its goroutine
  cbCount, cbFirst, cbLast, cbTotal, cbMono, cbActive, \* history of PollFunction calls
  file0,           \* <<exists, data>> of the file when the call started
  prevFailedWrote  \* the previous call failed after writing at least one byte

envVars == <<config, content, callNo, file0>>
fileVars == <<fileExists, fileData>>
mainVars == <<pc, localSize, remoteSize, serverCanResume, completed, resumeDownload,
              heads, gets, rangeHdr, getStatus, headBody, stream,
              bodyOpened, bodyCloses, outOpened, outCloses, buff, readErr, retErr>>
ctxVars == <<callerCancelled, ctxDone, ctxCause>>
wdVars == <<wdTimer, wdLeft, idle>>
pollVars == <<pollTimer, pg, pgSnap, polls>>
cbVars == <<cbCount, cbFirst, cbLast, cbTotal, cbMono, cbActive>>
vars == <<envVars, fileVars, mainVars, ctxVars, wdVars, pollVars, mainSnap, cbVars,
          prevFailedWrote>>

\* ------------------------------------------------------- pure decisions
\* a Stat that reports every file as empty
LocalSizeZero(exists, data) == 0

\* os.Stat: the size of the file, 0 when it does not exist
LocalSize(exists, data) == IF exists THEN Len(data) ELSE 0

\* headResp.ContentLength
RemoteSize(sizeKnown, body) == IF sizeKnown THEN Len(body) ELSE Unknown

\* a capability flag that follows Accept-Ranges alone
ServerCanResumeAnySize(acceptRanges, remote) == acceptRanges

\* serverCanResume: "Accept-Ranges: bytes" and a known size
ServerCanResume(acceptRanges, remote) == acceptRanges /\ remote # Unknown

ClientCanResume(cfg) == ~cfg.noResume

\* a comparison that never takes the "size matches" shortcut
AlreadyCompleteIfLarger(cfg, local, remote) == ClientCanResume(cfg) /\ local > remote

\* the "size matches" shortcut
AlreadyComplete(cfg, local, remote) == ClientCanResume(cfg) /\ local = remote

\* a counter that starts at the local size whenever resume is allowed
InitialCompletedLocal(cfg, local, remote) == IF ClientCanResume(cfg) THEN local ELSE 0

\* the initial value of the completed counter
InitialCompleted(cfg, local, remote) ==
  IF ClientCanResume(cfg) /\ local < remote THEN local ELSE 0

ResumeDownload(cfg, canResume, done) == ClientCanResume(cfg) /\ canResume /\ done > 0

\* a Range header that always asks for the whole resource
RangeHeaderFromZero(resume, done) == IF resume THEN 0 ELSE Unknown

\* the offset of "Range: bytes=<completed>-", Unknown without the header
RangeHeader(resume, done) == IF resume THEN done ELSE Unknown

\* a status check that lets every status through
StatusAlwaysAccepted(cfg, status) == TRUE

\* the status check of the GET response
StatusAccepted(cfg, status) == cfg.noErrStatus \/ status = 200 \/ status = 206

\* flags without O_TRUNC: the old content stays
OpenedDataNoTrunc(resume, data) == data

\* the file content right after os.OpenFile with the flags the code builds
OpenedData(resume, data) == IF resume THEN data ELSE <<>>

\* an abort that always reports a timeout
CtxErrTimeout(cause) == "timeout"

\* the error an operation aborted by the merged context reports
CtxErr(cause) == IF cause = "deadline" THEN "timeout" ELSE "canceled"

\* a cancel whose cause replaces the one recorded
CancelCauseLast(done, cause, new) == new

\* context.WithCancelCause's cancel: the first cancellation sets the cause
CancelCause(done, cause, new) == IF done THEN cause ELSE new

\* the body an honest server sends for the GET
ResponseBody(status, offset, body) ==
  IF status = 206 THEN Drop(body, offset)
  ELSE IF status = 200 THEN body
  ELSE ErrBody


\* ------------------------------------------------------------ initial state
InitialFiles ==
  {<<FALSE, <<>>>>}
    \cup {<<TRUE, Canon(k)>> : k \in 0..MaxRemote}
    \cup {<<TRUE, Junk(k)>> : k \in 1..(MaxRemote + 1)}

\* the per-call state before DownloadWithConfig has done anything
CallStart ==
  /\ pc = "start"
  /\ localSize = 0 /\ remoteSize = Unknown /\ serverCanResume = FALSE
  /\ completed = 0 /\ resumeDownload = FALSE
  /\ heads = 0 /\ gets = 0 /\ rangeHdr = Unknown /\ getStatus = 0
  /\ headBody = "none" /\ stream = <<>>
  /\ bodyOpened = FALSE /\ bodyCloses = 0 /\ outOpened = FALSE /\ outCloses = 0
  /\ buff = <<>> /\ readErr = "none" /\ retErr = "pending"
  /\ callerCancelled = FALSE /\ ctxDone = FALSE /\ ctxCause = "none"
  /\ wdTimer = "none" /\ wdLeft = 0 /\ idle = 0
  /\ pollTimer = "none" /\ pg = "idle" /\ pgSnap = 0 /\ mainSnap = 0 /\ polls = 0
  /\ cbCount = 0 /\ cbFirst = 0 /\ cbLast = 0 /\ cbTotal = 0 /\ cbMono = TRUE /\ cbActive = 0

Init ==
  /\ config \in Configs
  /\ content \in {Canon(k) : k \in 0..MaxRemote}
  /\ \E f \in InitialFiles : fileExists = f[1] /\ fileData = f[2] /\ file0 = f
  /\ callNo = 1
  /\ prevFailedWrote = FALSE
  /\ CallStart

\* ------------------------------------------------------ PollFunction calls
\* PollFunction(v, total) is entered
CallbackBegin(v, total) ==
  /\ cbCount' = cbCount + 1
  /\ cbFirst' = IF cbCount = 0 THEN v ELSE cbFirst
  /\ cbLast' = v
  /\ cbTotal' = total
  /\ cbMono' = (cbMono /\ (cbCount = 0 \/ v >= cbLast))
  /\ cbActive' = cbActive + 1

\* PollFunction returns
CallbackEnd ==
  /\ cbActive' = cbActive - 1
  /\ UNCHANGED <<cbCount, cbFirst, cbLast, cbTotal, cbMono>>

\* a PollFunction call made while no timer exists: entered and left in one step
CallbackSync(v, total) ==
  /\ cbCount' = cbCount + 1
  /\ cbFirst' = IF cbCount = 0 THEN v ELSE cbFirst
  /\ cbLast' = v
  /\ cbTotal' = total
  /\ cbMono' = (cbMono /\ (cbCount = 0 \/ v >= cbLast))
  /\ UNCHANGED cbActive

\* a probe of the local file that creates it when it is absent
StatCreates ==
  /\ pc = "start"
  /\ localSize' = LocalSize(fileExists, fileData)
  /\ fileExists' = TRUE
  /\ pc' = "head"
  /\ UNCHANGED <<remoteSize, serverCanResume, completed, resumeDownload, heads, gets,
                 rangeHdr, getStatus, headBody, stream, bodyOpened, bodyCloses,
                 outOpened, outCloses, buff, readErr, retErr>>
  /\ UNCHANGED <<envVars, fileData, ctxVars, wdVars, pollVars, mainSnap, cbVars,
                 prevFailedWrote>>

\* ------------------------------------------------------------ main goroutine
\* os.Stat of the target file
Stat ==
  /\ pc = "start"
  /\ localSize' = LocalSize(fileExists, fileData)
  /\ pc' = "head"
  /\ UNCHANGED <<remoteSize, serverCanResume, completed, resumeDownload, heads, gets,
                 rangeHdr, getStatus, headBody, stream, bodyOpened, bodyCloses,
                 outOpened, outCloses, buff, readErr, retErr>>
  /\ UNCHANGED <<envVars, fileVars, ctxVars, wdVars, pollVars, mainSnap, cbVars,
                 prevFailedWrote>>

\* a caller that goes on after a failed doHeadRequest
HeadNextUnchecked(o) == "accept"

\* "if err != nil { return err }" after doHeadRequest
HeadNext(o) == IF o = "ok" THEN "accept" ELSE "done"

\* what the server can make of a HEAD request it receives
HeadOutcomes == {"transport", "drain", "close", "ok"}

\* doHeadRequest: the request cannot be built, or it is sent and the server
\* answers or fails; the headers of the answer are then read
DoHeadRequest ==
  /\ pc = "head"
  /\ \E o \in {"build"} \cup (IF callerCancelled THEN {} ELSE HeadOutcomes),
        sizeKnown \in BOOLEAN, acceptRanges \in BOOLEAN :
       /\ heads' = IF o = "build" THEN heads ELSE heads + 1
       /\ headBody' = CASE o = "drain" -> "open"
                        [] o \in {"close", "ok"} -> "closed"
                        [] OTHER -> "none"
       /\ pc' = HeadNext(o)
       /\ IF o = "ok"
            THEN /\ remoteSize' = RemoteSize(sizeKnown, content)
                 /\ serverCanResume' = ServerCanResume(acceptRanges, remoteSize')
                 /\ retErr' = retErr
            ELSE /\ sizeKnown /\ acceptRanges
                 /\ retErr' = "head" \o o
                 /\ UNCHANGED <<remoteSize, serverCanResume>>
  /\ UNCHANGED <<localSize, completed, resumeDownload, gets, rangeHdr, getStatus, stream,
                 bodyOpened, bodyCloses, outOpened, outCloses, buff, readErr>>
  /\ UNCHANGED <<envVars, fileVars, ctxVars, wdVars, pollVars, mainSnap, cbVars,
                 prevFailedWrote>>

\* a HEAD whose client timeout is reported but does not end the call
HeadAbortIgnored ==
  /\ pc = "head"
  /\ config.timeout > 0
  /\ heads' = heads + 1
  /\ retErr' = "headtimeout"
  /\ pc' = "accept"
  /\ UNCHANGED <<localSize, remoteSize, serverCanResume, completed, resumeDownload, gets,
                 rangeHdr, getStatus, headBody, stream, bodyOpened, bodyCloses,
                 outOpened, outCloses, buff, readErr>>
  /\ UNCHANGED <<envVars, fileVars, ctxVars, wdVars, pollVars, mainSnap, cbVars,
                 prevFailedWrote>>

\* HttpClient.Do(headReq) is aborted: by the caller's context, or by the
\* HttpClient.Timeout that doHeadRequest sets to InactivityTimeout
HeadAbort ==
  /\ pc = "head"
  /\ \E o \in (IF callerCancelled THEN {"canceled"} ELSE {})
               \cup (IF config.timeout > 0 THEN {"timeout"} ELSE {}) :
       /\ retErr' = "head" \o o
       /\ pc' = HeadNext(o)
  /\ heads' = heads + 1
  /\ UNCHANGED <<localSize, remoteSize, serverCanResume, completed, resumeDownload, gets,
                 rangeHdr, getStatus, headBody, stream, bodyOpened, bodyCloses,
                 outOpened, outCloses, buff, readErr>>
  /\ UNCHANGED <<envVars, fileVars, ctxVars, wdVars, pollVars, mainSnap, cbVars,
                 prevFailedWrote>>

\* an AcceptFunc whose error is recorded but does not end the call
AcceptNoReturn ==
  /\ pc = "accept"
  /\ \E reject \in BOOLEAN :
       retErr' = (IF reject THEN "rejected" ELSE retErr) /\ pc' = "plan"
  /\ UNCHANGED <<localSize, remoteSize, serverCanResume, completed, resumeDownload,
                 heads, gets, rangeHdr, getStatus, headBody, stream, bodyOpened,
                 bodyCloses, outOpened, outCloses, buff, readErr>>
  /\ UNCHANGED <<envVars, fileVars, ctxVars, wdVars, pollVars, mainSnap, cbVars,
                 prevFailedWrote>>

\* config.AcceptFunc, when set, inspects the HEAD response
Accept ==
  /\ pc = "accept"
  /\ \E reject \in BOOLEAN :
       IF reject THEN retErr' = "rejected" /\ pc' = "done"
                 ELSE retErr' = retErr /\ pc' = "plan"
  /\ UNCHANGED <<localSize, remoteSize, serverCanResume, completed, resumeDownload,
                 heads, gets, rangeHdr, getStatus, headBody, stream, bodyOpened,
                 bodyCloses, outOpened, outCloses, buff, readErr>>
  /\ UNCHANGED <<envVars, fileVars, ctxVars, wdVars, pollVars, mainSnap, cbVars,
                 prevFailedWrote>>

\* the resume decision: skip the download, resume it or start from scratch
Plan ==
  /\ pc = "plan"
  /\ IF AlreadyComplete(config, localSize, remoteSize)
       THEN /\ IF config.poll THEN CallbackSync(remoteSize, remoteSize) ELSE UNCHANGED cbVars
            /\ retErr' = "nil"
            /\ pc' = "done"
            /\ UNCHANGED completed
       ELSE /\ completed' = InitialCompleted(config, localSize, remoteSize)
            /\ pc' = "wdog"
            /\ UNCHANGED <<retErr, cbVars>>
  /\ UNCHANGED <<localSize, remoteSize, serverCanResume, resumeDownload, heads, gets,
                 rangeHdr, getStatus, headBody, stream, bodyOpened, bodyCloses,
                 outOpened, outCloses, buff, readErr>>
  /\ UNCHANGED <<envVars, fileVars, ctxVars, wdVars, pollVars, mainSnap, prevFailedWrote>>


\* a watchdog that gets a timer whatever the timeout
TimerAlways(timeout) == "armed"

\* a watchdog that never gets a timer
TimerNever(timeout) == "nil"

\* the timer of newWatchdog: time.AfterFunc only with a timeout > 0
TimerAfterFunc(timeout) == IF timeout > 0 THEN "armed" ELSE "nil"

\* newWatchdog: the merged context and, with a timeout > 0, the armed timer
NewWatchdog ==
  /\ pc = "wdog"
  /\ ctxDone' = callerCancelled
  /\ ctxCause' = IF callerCancelled THEN "canceled" ELSE "none"
  /\ wdTimer' = TimerAfterFunc(config.timeout)
  /\ wdLeft' = config.timeout
  /\ idle' = 0
  /\ pc' = "get"
  /\ UNCHANGED <<localSize, remoteSize, serverCanResume, completed, resumeDownload,
                 heads, gets, rangeHdr, getStatus, headBody, stream, bodyOpened,
                 bodyCloses, outOpened, outCloses, buff, readErr, retErr>>
  /\ UNCHANGED <<envVars, fileVars, callerCancelled, pollVars, mainSnap, cbVars,
                 prevFailedWrote>>

\* the GET request is built (Range header when resuming) and sent
SendGet ==
  /\ pc = "get"
  /\ \E built \in BOOLEAN :
       IF built
         THEN /\ resumeDownload' = ResumeDownload(config, serverCanResume, completed)
              /\ rangeHdr' = RangeHeader(resumeDownload', completed)
              /\ gets' = gets + 1
              /\ pc' = "getwait"
              /\ retErr' = retErr
         ELSE /\ retErr' = "getbuild"
              /\ pc' = "d_wdog"
              /\ UNCHANGED <<resumeDownload, rangeHdr, gets>>
  /\ UNCHANGED <<localSize, remoteSize, serverCanResume, completed, heads, getStatus,
                 headBody, stream, bodyOpened, bodyCloses, outOpened, outCloses,
                 buff, readErr>>
  /\ UNCHANGED <<envVars, fileVars, ctxVars, wdVars, pollVars, mainSnap, cbVars,
                 prevFailedWrote>>

\* the status an honest server answers the GET with
GetStatuses == {IF rangeHdr # Unknown THEN 206 ELSE 200, 404}

\* HttpClient.Do(req) is aborted by the merged context
GetAbort ==
  /\ pc = "getwait"
  /\ ctxDone
  /\ retErr' = CtxErr(ctxCause)
  /\ pc' = "d_wdog"
  /\ UNCHANGED <<localSize, remoteSize, serverCanResume, completed, resumeDownload,
                 heads, gets, rangeHdr, getStatus, headBody, stream, bodyOpened,
                 bodyCloses, outOpened, outCloses, buff, readErr>>
  /\ UNCHANGED <<envVars, fileVars, ctxVars, wdVars, pollVars, mainSnap, cbVars,
                 prevFailedWrote>>

\* HttpClient.Do(req) returns a transport error, or a response whose status is
\* then checked
GetReturn ==
  /\ pc = "getwait"
  /\ ~ctxDone
  /\ \/ /\ retErr' = "get"
        /\ pc' = "d_wdog"
        /\ UNCHANGED <<getStatus, stream, bodyOpened>>
     \/ \E status \in GetStatuses :
          /\ getStatus' = status
          /\ stream' = ResponseBody(status, rangeHdr, content)
          /\ bodyOpened' = TRUE
          /\ IF StatusAccepted(config, status)
               THEN pc' = "open" /\ retErr' = retErr
               ELSE pc' = "d_body" /\ retErr' = "status"
  /\ UNCHANGED <<localSize, remoteSize, serverCanResume, completed, resumeDownload,
                 heads, gets, rangeHdr, headBody, bodyCloses, outOpened, outCloses,
                 buff, readErr>>
  /\ UNCHANGED <<envVars, fileVars, ctxVars, wdVars, pollVars, mainSnap, cbVars,
                 prevFailedWrote>>

\* os.OpenFile: O_APPEND when resuming, O_CREATE|O_TRUNC otherwise
OpenFile ==
  /\ pc = "open"
  /\ \/ /\ retErr' = "open"
        /\ pc' = "d_body"
        /\ UNCHANGED <<fileVars, outOpened>>
     \/ /\ resumeDownload => fileExists
        /\ fileExists' = TRUE
        /\ fileData' = OpenedData(resumeDownload, fileData)
        /\ outOpened' = TRUE
        /\ pc' = IF config.poll THEN "pollinit" ELSE "read"
        /\ retErr' = retErr
  /\ UNCHANGED <<localSize, remoteSize, serverCanResume, completed, resumeDownload,
                 heads, gets, rangeHdr, getStatus, headBody, stream, bodyOpened,
                 bodyCloses, outCloses, buff, readErr>>
  /\ UNCHANGED <<envVars, ctxVars, wdVars, pollVars, mainSnap, cbVars, prevFailedWrote>>

\* the initial update() and the creation of the poll timer
PollInit ==
  /\ pc = "pollinit"
  /\ CallbackSync(completed, remoteSize)
  /\ pollTimer' = "armed"
  /\ pc' = "read"
  /\ UNCHANGED <<localSize, remoteSize, serverCanResume, completed, resumeDownload,
                 heads, gets, rangeHdr, getStatus, headBody, stream, bodyOpened,
                 bodyCloses, outOpened, outCloses, buff, readErr, retErr>>
  /\ UNCHANGED <<envVars, fileVars, ctxVars, wdVars, pg, pgSnap, polls, mainSnap,
                 prevFailedWrote>>

\* a return out of the copy loop that closes neither the file nor the stream
AfterLoopNoClose == "d_wdog"

\* where a return out of the copy loop goes first: the deferred calls, last first
AfterLoop == IF config.poll THEN "d_stop" ELSE "d_out"

\* a loop exit that consults the merged context before reporting success
LoopExitIfAlive(err) ==
  CASE err = "none" -> pc' = "read" /\ retErr' = retErr
    [] err = "EOF" -> pc' = AfterLoop
                      /\ retErr' = IF ctxDone THEN CtxErr(ctxCause) ELSE "nil"
    [] OTHER -> pc' = AfterLoop /\ retErr' = err

\* a loop that reads again after an error
LoopExitRetry(err) ==
  IF err = "EOF" THEN pc' = AfterLoop /\ retErr' = "nil"
  ELSE pc' = "read" /\ retErr' = retErr

\* what the copy loop does with the error of a Read once its bytes are handled
LoopExit(err) ==
  CASE err = "none" -> pc' = "read" /\ retErr' = retErr
    [] err = "EOF" -> pc' = AfterLoop /\ retErr' = "nil"
    [] OTHER -> pc' = AfterLoop /\ retErr' = err

\* in.Read(buff[:]) is aborted by the merged context
ReadAbort ==
  /\ pc = "read"
  /\ ctxDone
  /\ buff' = <<>>
  /\ readErr' = CtxErr(ctxCause)
  /\ LoopExit(readErr')
  /\ UNCHANGED <<localSize, remoteSize, serverCanResume, completed, resumeDownload,
                 heads, gets, rangeHdr, getStatus, headBody, stream, bodyOpened,
                 bodyCloses, outOpened, outCloses>>
  /\ UNCHANGED <<envVars, fileVars, ctxVars, wdVars, pollVars, mainSnap, cbVars,
                 prevFailedWrote>>

\* in.Read(buff[:]) returns n bytes and nil, io.EOF or a transport error
Read ==
  /\ pc = "read"
  /\ ~ctxDone
  /\ \E n \in 0..Min(BuffSize, Len(stream)), e \in {"none", "EOF", "read"} :
       /\ e = "EOF" => n = Len(stream)
       /\ buff' = SubSeq(stream, 1, n)
       /\ stream' = Drop(stream, n)
       /\ readErr' = e
       /\ IF n > 0 THEN pc' = "write" /\ retErr' = retErr ELSE LoopExit(e)
  /\ UNCHANGED <<localSize, remoteSize, serverCanResume, completed, resumeDownload,
                 heads, gets, rangeHdr, getStatus, headBody, bodyOpened, bodyCloses,
                 outOpened, outCloses>>
  /\ UNCHANGED <<envVars, fileVars, ctxVars, wdVars, pollVars, mainSnap, cbVars,
                 prevFailedWrote>>

\* a loop that goes on to count the chunk after a failed Write
WriteUnchecked ==
  /\ pc = "write"
  /\ \/ /\ fileData' = fileData \o buff
        /\ retErr' = retErr
     \/ /\ \E j \in 0..(Len(buff) - 1) : fileData' = fileData \o SubSeq(buff, 1, j)
        /\ retErr' = "write"
  /\ pc' = "count"
  /\ UNCHANGED <<localSize, remoteSize, serverCanResume, completed, resumeDownload,
                 heads, gets, rangeHdr, getStatus, headBody, stream, bodyOpened,
                 bodyCloses, outOpened, outCloses, buff, readErr>>
  /\ UNCHANGED <<envVars, fileExists, ctxVars, wdVars, pollVars, mainSnap, cbVars,
                 prevFailedWrote>>

\* out.Write(buff[:n]): all of the chunk, or a part of it and an error
Write ==
  /\ pc = "write"
  /\ \/ /\ fileData' = fileData \o buff
        /\ pc' = "count"
        /\ retErr' = retErr
     \/ /\ \E j \in 0..(Len(buff) - 1) : fileData' = fileData \o SubSeq(buff, 1, j)
        /\ pc' = AfterLoop
        /\ retErr' = "write"
  /\ UNCHANGED <<localSize, remoteSize, serverCanResume, completed, resumeDownload,
                 heads, gets, rangeHdr, getStatus, headBody, stream, bodyOpened,
                 bodyCloses, outOpened, outCloses, buff, readErr>>
  /\ UNCHANGED <<envVars, fileExists, ctxVars, wdVars, pollVars, mainSnap, cbVars,
                 prevFailedWrote>>

\* a Kick that grants only the time that was left plus one tick
KickAddsTick ==
  IF config.timeout > 0
    THEN wdTimer' = "armed" /\ wdLeft' = Min(wdLeft + 1, config.timeout)
    ELSE UNCHANGED <<wdTimer, wdLeft>>

\* a Kick that leaves the deadline where it was
KickKeepsDeadline == UNCHANGED <<wdTimer, wdLeft>>

\* watchdog.Kick: the timer is reset to the full timeout
KickTimer ==
  IF config.timeout > 0
    THEN wdTimer' = "armed" /\ wdLeft' = config.timeout
    ELSE UNCHANGED <<wdTimer, wdLeft>>

\* a loop that counts a chunk only when its Read reported no error
CountUnlessError ==
  /\ pc = "count"
  /\ completed' = IF readErr = "none" THEN completed + Len(buff) ELSE completed
  /\ KickTimer
  /\ idle' = 0
  /\ LoopExit(readErr)
  /\ buff' = <<>>
  /\ UNCHANGED <<localSize, remoteSize, serverCanResume, resumeDownload,
                 heads, gets, rangeHdr, getStatus, headBody, stream, bodyOpened,
                 bodyCloses, outOpened, outCloses, readErr>>
  /\ UNCHANGED <<envVars, fileVars, ctxVars, pollVars, mainSnap, cbVars, prevFailedWrote>>

\* a written chunk is counted (completed += n under completedLock), the watchdog
\* kicked, and readErr ends or continues the loop
Count ==
  /\ pc = "count"
  /\ completed' = completed + Len(buff)
  /\ KickTimer
  /\ idle' = 0
  /\ LoopExit(readErr)
  /\ buff' = <<>>
  /\ UNCHANGED <<localSize, remoteSize, serverCanResume, resumeDownload,
                 heads, gets, rangeHdr, getStatus, headBody, stream, bodyOpened,
                 bodyCloses, outOpened, outCloses, readErr>>
  /\ UNCHANGED <<envVars, fileVars, ctxVars, pollVars, mainSnap, cbVars, prevFailedWrote>>

\* ---------------------------------------------- deferred calls, last first
mainRest == <<localSize, remoteSize, serverCanResume, completed, resumeDownload,
              heads, gets, rangeHdr, getStatus, headBody, stream, bodyOpened,
              buff, readErr, retErr>>

\* t.Stop() of the deferred func
DeferStop ==
  /\ pc = "d_stop"
  /\ pollTimer' = IF pollTimer = "armed" THEN "stopped" ELSE pollTimer
  /\ pc' = "d_snap"
  /\ UNCHANGED <<mainRest, bodyCloses, outOpened, outCloses>>
  /\ UNCHANGED <<envVars, fileVars, ctxVars, wdVars, pg, pgSnap, polls, mainSnap, cbVars,
                 prevFailedWrote>>

\* the final update() reads completed under the lock
DeferSnap ==
  /\ pc = "d_snap"
  /\ mainSnap' = completed
  /\ pc' = "d_call"
  /\ UNCHANGED <<mainRest, bodyCloses, outOpened, outCloses>>
  /\ UNCHANGED <<envVars, fileVars, ctxVars, wdVars, pollVars, cbVars, prevFailedWrote>>

\* the final update() enters PollFunction
DeferCall ==
  /\ pc = "d_call"
  /\ CallbackBegin(mainSnap, remoteSize)
  /\ mainSnap' = 0
  /\ pc' = "d_incall"
  /\ UNCHANGED <<mainRest, bodyCloses, outOpened, outCloses>>
  /\ UNCHANGED <<envVars, fileVars, ctxVars, wdVars, pollVars, prevFailedWrote>>

\* PollFunction returns to the final update()
DeferCallEnd ==
  /\ pc = "d_incall"
  /\ CallbackEnd
  /\ pc' = "d_out"
  /\ UNCHANGED <<mainRest, bodyCloses, outOpened, outCloses>>
  /\ UNCHANGED <<envVars, fileVars, ctxVars, wdVars, pollVars, mainSnap, prevFailedWrote>>

\* defer out.Close()
DeferOutClose ==
  /\ pc = "d_out"
  /\ outCloses' = outCloses + 1
  /\ pc' = "d_body"
  /\ UNCHANGED <<mainRest, bodyCloses, outOpened>>
  /\ UNCHANGED <<envVars, fileVars, ctxVars, wdVars, pollVars, mainSnap, cbVars,
                 prevFailedWrote>>

\* defer resp.Body.Close()
DeferBodyClose ==
  /\ pc = "d_body"
  /\ bodyCloses' = bodyCloses + 1
  /\ stream' = <<>>
  /\ pc' = "d_wdog"
  /\ UNCHANGED <<localSize, remoteSize, serverCanResume, completed, resumeDownload,
                 heads, gets, rangeHdr, getStatus, headBody, bodyOpened, buff, readErr,
                 retErr, outOpened, outCloses>>
  /\ UNCHANGED <<envVars, fileVars, ctxVars, wdVars, pollVars, mainSnap, cbVars,
                 prevFailedWrote>>

\* timer.Stop() on a timer that is due: it is stopped, or its func has already
\* started and will still run ("late")
StoppedTimer(timer, left) ==
  IF timer # "armed" THEN {timer}
  ELSE IF left = 0 THEN {"stopped", "late"}
  ELSE {"stopped"}

\* a Cancel that cancels the context and leaves the timer running
WdCancelKeepsTimer ==
  /\ wdTimer' = wdTimer
  /\ ctxCause' = CancelCause(ctxDone, ctxCause, "canceled")
  /\ ctxDone' = TRUE
  /\ wdLeft' = wdLeft /\ idle' = 0
  /\ UNCHANGED callerCancelled

\* watchdog.Cancel: the timer is stopped, the merged context cancelled with no cause
WdCancel ==
  /\ wdTimer' \in (IF config.timeout > 0 THEN StoppedTimer(wdTimer, wdLeft) ELSE {wdTimer})
  /\ ctxCause' = CancelCause(ctxDone, ctxCause, "canceled")
  /\ ctxDone' = TRUE
  /\ wdLeft' = 0 /\ idle' = 0
  /\ UNCHANGED callerCancelled

\* defer wdog.Cancel(), after which DownloadWithConfig has returned
DeferWdogCancel ==
  /\ pc = "d_wdog"
  /\ WdCancel
  /\ pc' = "done"
  /\ UNCHANGED <<mainRest, bodyCloses, outOpened, outCloses>>
  /\ UNCHANGED <<envVars, fileVars, pollVars, mainSnap, cbVars, prevFailedWrote>>

\* an intermediate update() that reads the counter without completedLock:
\* the racing read may see any value the counter has held
PollFireUnlocked ==
  /\ pollTimer = "armed"
  /\ polls < MaxPolls
  /\ pollTimer' = "running"
  /\ pgSnap' \in 0..completed
  /\ pg' = "call"
  /\ polls' = polls + 1
  /\ UNCHANGED <<envVars, fileVars, mainVars, ctxVars, wdVars, mainSnap, cbVars,
                 prevFailedWrote>>

\* ------------------------------------------------- the poll timer's goroutine
\* the timer created by time.AfterFunc(PollInterval, ...) expires: its func starts
\* in a goroutine of its own and update() reads completed under the lock
PollFire ==
  /\ pollTimer = "armed"
  /\ polls < MaxPolls
  /\ pollTimer' = "running"
  /\ pgSnap' = completed
  /\ pg' = "call"
  /\ polls' = polls + 1
  /\ UNCHANGED <<envVars, fileVars, mainVars, ctxVars, wdVars, mainSnap, cbVars,
                 prevFailedWrote>>

\* the intermediate update() enters PollFunction
PollCall ==
  /\ pg = "call"
  /\ CallbackBegin(pgSnap, remoteSize)
  /\ pgSnap' = 0
  /\ pg' = "incall"
  /\ UNCHANGED <<envVars, fileVars, mainVars, ctxVars, wdVars, pollTimer, polls,
                 mainSnap, prevFailedWrote>>

\* PollFunction returns and the timer's func ends with t.Reset(PollInterval)
PollReset ==
  /\ pg = "incall"
  /\ CallbackEnd
  /\ pollTimer' = "armed"
  /\ pg' = "idle"
  /\ UNCHANGED <<envVars, fileVars, mainVars, ctxVars, wdVars, pgSnap, polls, mainSnap,
                 prevFailedWrote>>

\* --------------------------------------------- watchdog timer, caller, server
\* the operations the main goroutine blocks in
Blocking == {"getwait", "read", "write"}

\* one unit of time passes while the watchdog timer runs
Tick ==
  /\ wdTimer = "armed"
  /\ wdLeft > 0
  /\ pc \in Blocking
  /\ wdLeft' = wdLeft - 1
  /\ idle' = idle + 1
  /\ UNCHANGED <<envVars, fileVars, mainVars, ctxVars, wdTimer, pollVars, mainSnap, cbVars,
                 prevFailedWrote>>

\* the watchdog timer expires: cancel(os.ErrDeadlineExceeded)
WdFire ==
  /\ wdTimer = "armed"
  /\ wdLeft = 0
  /\ wdTimer' = "expired"
  /\ ctxCause' = CancelCause(ctxDone, ctxCause, "deadline")
  /\ ctxDone' = TRUE
  /\ UNCHANGED <<envVars, fileVars, mainVars, callerCancelled, wdLeft, idle, pollVars,
                 mainSnap, cbVars, prevFailedWrote>>

\* a late timer func whose cause replaces the recorded one
WdLateFireOverrides ==
  /\ wdTimer = "late"
  /\ wdTimer' = "expired"
  /\ ctxCause' = "deadline"
  /\ ctxDone' = TRUE
  /\ UNCHANGED <<envVars, fileVars, mainVars, callerCancelled, wdLeft, idle, pollVars,
                 mainSnap, cbVars, prevFailedWrote>>

\* the func of a timer that Stop() came too late for: cancel(os.ErrDeadlineExceeded)
\* on the context that Cancel has already cancelled
WdLateFire ==
  /\ wdTimer = "late"
  /\ wdTimer' = "expired"
  /\ ctxCause' = CancelCause(ctxDone, ctxCause, "deadline")
  /\ ctxDone' = TRUE
  /\ UNCHANGED <<envVars, fileVars, mainVars, callerCancelled, wdLeft, idle, pollVars,
                 mainSnap, cbVars, prevFailedWrote>>

\* a cancellation of the caller's context that does not reach the merged context
CallerCancelDetached ==
  /\ ~callerCancelled
  /\ pc # "done"
  /\ callerCancelled' = TRUE
  /\ UNCHANGED <<envVars, fileVars, mainVars, ctxDone, ctxCause, wdVars, pollVars,
                 mainSnap, cbVars, prevFailedWrote>>

\* the caller cancels the context it passed in
CallerCancel ==
  /\ ~callerCancelled
  /\ pc # "done"
  /\ callerCancelled' = TRUE
  /\ IF wdTimer # "none"
       THEN ctxCause' = CancelCause(ctxDone, ctxCause, "canceled") /\ ctxDone' = TRUE
       ELSE UNCHANGED <<ctxDone, ctxCause>>
  /\ UNCHANGED <<envVars, fileVars, mainVars, wdVars, pollVars, mainSnap, cbVars,
                 prevFailedWrote>>

\* bytes this call has written to the file
Wrote ==
  IF outOpened THEN Len(fileData) - Len(OpenedData(resumeDownload, Canon(localSize)))
  ELSE 0

\* the caller calls DownloadWithConfig again on the same file
NextCall ==
  /\ pc = "done"
  /\ callNo < MaxCalls
  /\ callNo' = callNo + 1
  /\ config' \in {c \in Configs : ~c.poll}
  /\ prevFailedWrote' = (retErr # "nil" /\ Wrote > 0)
  /\ pc' = "start"
  /\ localSize' = 0 /\ remoteSize' = Unknown /\ serverCanResume' = FALSE
  /\ completed' = 0 /\ resumeDownload' = FALSE
  /\ heads' = 0 /\ gets' = 0 /\ rangeHdr' = Unknown /\ getStatus' = 0
  /\ headBody' = "none" /\ stream' = <<>>
  /\ bodyOpened' = FALSE /\ bodyCloses' = 0 /\ outOpened' = FALSE /\ outCloses' = 0
  /\ buff' = <<>> /\ readErr' = "none" /\ retErr' = "pending"
  /\ callerCancelled' = FALSE /\ ctxDone' = FALSE /\ ctxCause' = "none"
  /\ wdTimer' = "none" /\ wdLeft' = 0 /\ idle' = 0
  /\ pollTimer' = "none" /\ pg' = "idle" /\ pgSnap' = 0 /\ mainSnap' = 0 /\ polls' = 0
  /\ cbCount' = 0 /\ cbFirst' = 0 /\ cbLast' = 0 /\ cbTotal' = 0 /\ cbMono' = TRUE /\ cbActive' = 0
  /\ file0' = <<fileExists, fileData>>
  /\ UNCHANGED <<content, fileVars>>

\* the steps of the main goroutine that do not wait for the server: once one
\* is possible, nothing but the scheduler delays it
Local ==
  \/ Stat \/ HeadAbort \/ Accept \/ Plan \/ NewWatchdog \/ SendGet \/ GetAbort
  \/ OpenFile \/ PollInit \/ ReadAbort \/ Write \/ Count
  \/ DeferStop \/ DeferSnap \/ DeferCall \/ DeferCallEnd
  \/ DeferOutClose \/ DeferBodyClose \/ DeferWdogCancel

\* one call of DownloadWithConfig, its watchdog and its caller
Call ==
  \/ Local \/ DoHeadRequest \/ GetReturn \/ Read
  \/ Tick \/ WdFire \/ WdLateFire \/ CallerCancel

\* one call whose poll timer does not expire before the call returns
Next == Call

Spec == Init /\ [][Next]_vars

\* one call with the poll timer expiring, no inactivity timeout
InitPoll == Init /\ config.poll /\ config.timeout = 0

NextPoll ==
  \/ Local \/ DoHeadRequest \/ GetReturn \/ Read \/ CallerCancel
  \/ PollFire \/ PollCall \/ PollReset

SpecPoll == InitPoll /\ [][NextPoll]_vars

\* one call without progress polling
InitPlain == Init /\ ~config.poll

NextPlain ==
  \/ Stat \/ HeadAbort \/ Accept \/ Plan \/ NewWatchdog \/ SendGet \/ GetAbort
  \/ OpenFile \/ ReadAbort \/ Write \/ Count
  \/ DeferOutClose \/ DeferBodyClose \/ DeferWdogCancel
  \/ DoHeadRequest \/ GetReturn \/ Read
  \/ Tick \/ WdFire \/ WdLateFire \/ CallerCancel

\* consecutive calls on the same file, without progress polling
NextCalls == NextPlain \/ NextCall

SpecCalls == InitPlain /\ [][NextCalls]_vars

\* the scheduler runs the main goroutine and the watchdog timer; the server
\* owes nothing: DoHeadRequest, GetReturn and Read may never happen
Fairness == WF_vars(Local) /\ WF_vars(Tick) /\ WF_vars(WdFire)

SpecFair == InitPlain /\ [][NextPlain]_vars /\ Fairness


\* ------------------------------------------------------------------ claims
\* C1: with resume allowed and a local file as long as the known remote size (and
\* no veto of the accept predicate), the call is over right after the resume
\* decision: it returned nil, sent no GET, opened no file, and PollFunction, when
\* set, was called exactly once, with current = total = remote size.
C1Case ==
  /\ ClientCanResume(config) /\ remoteSize # Unknown /\ localSize = remoteSize
  /\ pc \notin {"accept", "plan"} /\ retErr # "rejected"

C1_AlreadyComplete ==
  C1Case =>
    /\ pc = "done" /\ retErr = "nil"
    /\ gets = 0 /\ ~outOpened
    /\ cbCount = (IF config.poll THEN 1 ELSE 0)
    /\ config.poll => cbFirst = remoteSize /\ cbLast = remoteSize /\ cbTotal = remoteSize

C1_Witness ==
  C1Case /\ pc = "done" /\ config.poll /\ remoteSize > 0 /\ cbCount = 1 /\ retErr = "nil"

\* C2 as stated: with resume allowed, 0 < local length < known remote size and a
\* range-capable server, the GET carries Range: bytes=<local length>-, the file is
\* opened in append mode (its old bytes stay in front), and when the call has
\* returned nil on a 206 answer the file equals the remote content and the
\* counter equals the remote size -- whatever the local file holds.
C2Case ==
  /\ ClientCanResume(config) /\ serverCanResume
  /\ 0 < localSize /\ localSize < remoteSize

C2Resumed ==
  /\ gets > 0 => rangeHdr = localSize /\ resumeDownload
  /\ outOpened => IsPrefix(file0[2], fileData)
  /\ (pc = "done" /\ retErr = "nil" /\ getStatus = 206) =>
       fileData = content /\ completed = remoteSize

C2_AnyLocalFile == C2Case => C2Resumed

\* C2: the same, for a local file that holds the first <local length> bytes of
\* the remote content.
C2_Resume == (C2Case /\ IsPrefix(file0[2], content)) => C2Resumed

C2_Witness ==
  /\ C2Case /\ pc = "done" /\ retErr = "nil" /\ getStatus = 206
  /\ file0 = <<TRUE, Canon(1)>> /\ content = Canon(MaxRemote)
  /\ rangeHdr = 1 /\ fileData = content /\ completed = remoteSize

\* C3: with DoNotResumeDownload the GET carries no Range header, the file is
\* opened truncated (it only ever holds bytes of this response), the counter and
\* the first progress value are 0, and on success the file equals the body the
\* server sent: the remote content when it answered 200.
C3_NoResume ==
  config.noResume =>
    /\ gets > 0 => rangeHdr = Unknown /\ ~resumeDownload
    /\ pc \in {"open", "pollinit"} => completed = 0
    /\ outOpened => IsPrefix(fileData, ResponseBody(getStatus, rangeHdr, content))
    /\ cbCount > 0 => cbFirst = 0
    /\ (pc = "done" /\ retErr = "nil") =>
         /\ fileData = ResponseBody(getStatus, rangeHdr, content)
         /\ getStatus = 200 => fileData = content

C3_Witness ==
  /\ config.noResume /\ pc = "done" /\ retErr = "nil" /\ getStatus = 200
  /\ file0 = <<TRUE, Junk(MaxRemote + 1)>> /\ Len(content) = MaxRemote
  /\ fileData = content /\ cbCount = 2 /\ cbFirst = 0

\* C4: with an inactivity timeout > 0 a call that waits for data returns even
\* if the server never sends another byte; once the watchdog's deadline has
\* cancelled the merged context during a read, the call returns the timeout
\* error; and the watchdog fires exactly one timeout after the last chunk was
\* counted (or after its creation), whatever is left of the content.
C4Deadline ==
  /\ wdTimer = "armed" => idle + wdLeft = config.timeout
  /\ (pc = "done" /\ readErr = "timeout") =>
       retErr = "timeout" /\ ctxCause = "deadline" /\ wdTimer # "armed"

C4Fires == (wdTimer = "armed" /\ wdTimer' = "expired") => idle = config.timeout

C4_InactivityTimeout ==
  /\ []C4Deadline
  /\ [][C4Fires]_vars
  /\ (pc = "read" /\ config.timeout > 0) ~> (pc = "done")
  /\ (pc = "read" /\ ctxCause = "deadline") ~> (pc = "done" /\ retErr = "timeout")

C4_Witness ==
  /\ pc = "done" /\ retErr = "timeout" /\ readErr = "timeout"
  /\ Len(content) = MaxRemote /\ fileData = Canon(1) /\ completed = 1
  /\ file0 = <<FALSE, <<>>>> /\ idle = 0

\* C5: once the caller's context is cancelled while the copy loop runs, the loop
\* ends at its next read: that read returns the cancellation, nothing is written
\* after it, the call returns the cancellation error, and at every step the
\* bytes already in the file stay there.
C5Cancelled ==
  (pc = "done" /\ readErr = "canceled") =>
     retErr = "canceled" /\ callerCancelled /\ ctxCause = "canceled"

C5Step ==
  /\ (ctxDone /\ pc = "read" /\ pc' # "read") =>
       /\ pc' = AfterLoop /\ readErr' = CtxErr(ctxCause) /\ retErr' = readErr'
       /\ buff' = <<>>
  /\ outOpened => IsPrefix(fileData, fileData')
  /\ readErr \in {"canceled", "timeout"} => fileData' = fileData /\ readErr' = readErr

C5_Cancellation ==
  /\ []C5Cancelled
  /\ [][C5Step]_vars
  /\ (callerCancelled /\ pc \in {"read", "write", "count"}) ~> (pc = "done")
  /\ (pc = "read" /\ ctxCause = "canceled") ~> (pc = "done" /\ retErr = "canceled")

C5_Witness ==
  /\ pc = "done" /\ retErr = "canceled" /\ callerCancelled
  /\ file0 = <<FALSE, <<>>>> /\ Len(content) = MaxRemote /\ fileData = Canon(1)
  /\ config.timeout = 0

\* C6 as stated: for a call that reaches the transfer with a PollFunction, the
\* values passed to it never decrease, the first one is the initial offset, and
\* once the call has returned and no callback is pending the last one is the
\* final value of the counter.
C6_ProgressSequence ==
  (config.poll /\ outOpened) =>
    /\ cbMono
    /\ cbCount > 0 => cbFirst = InitialCompleted(config, localSize, remoteSize)
    /\ (pc = "done" /\ pg = "idle") => cbLast = completed

\* C7 as stated: whenever HEAD supplied the size (and the GET was not answered
\* with an error status), the counter and the last value passed to PollFunction
\* are at most the size.
C7_CompletedWithinSize ==
  (remoteSize # Unknown /\ getStatus # 404) =>
    completed <= remoteSize /\ cbLast <= remoteSize

\* C8: when the call has returned, the GET response stream and the output file
\* have each been closed exactly once if they were opened, and never otherwise;
\* at no time is either closed twice.
C8_ClosedOnce ==
  /\ bodyCloses <= 1 /\ outCloses <= 1
  /\ pc = "done" =>
       /\ bodyCloses = (IF bodyOpened THEN 1 ELSE 0)
       /\ outCloses = (IF outOpened THEN 1 ELSE 0)

C8_Witness ==
  pc = "done" /\ bodyOpened /\ outOpened /\ bodyCloses = 1 /\ outCloses = 1
    /\ retErr = "write"

\* C9 as stated: a failed call never takes bytes out of the file, and after a
\* call that failed having written bytes, a resume-enabled call against a
\* range-capable server asks for the bytes from the file's length on and, when it
\* returns nil (GET answered 206, or none needed), leaves the remote content.
C9Case ==
  /\ callNo > 1 /\ prevFailedWrote
  /\ ClientCanResume(config) /\ serverCanResume

C9Resumed ==
  /\ gets > 0 => rangeHdr = Len(file0[2]) /\ resumeDownload
  /\ (pc = "done" /\ retErr = "nil" /\ getStatus \in {0, 206}) => fileData = content

C9_ResumeAfterAnyFailure == C9Case => C9Resumed

\* C9: no step of a call that has its result, and no return, changes the file;
\* and if the file a failed call left holds the first bytes of the remote
\* content, the next resume-enabled call against a range-capable server asks for
\* the bytes from the file's length on and on success leaves the remote content.
C9NoRollback ==
  /\ retErr # "pending" => fileData' = fileData /\ fileExists' = fileExists
  /\ (outOpened /\ callNo' = callNo) => IsPrefix(fileData, fileData')

C9_ResumeAfterFailure ==
  /\ [](C9Case /\ IsPrefix(file0[2], content) => C9Resumed)
  /\ [][C9NoRollback]_vars

C9_Witness ==
  /\ C9Case /\ pc = "done" /\ retErr = "nil" /\ getStatus = 206
  /\ file0 = <<TRUE, Canon(1)>> /\ rangeHdr = 1 /\ fileData = content
  /\ Len(content) = MaxRemote

\* C10: once the accept predicate has returned an error, the call has returned
\* that error: no GET was sent, the file is neither opened nor changed, and
\* PollFunction was never called.
C10_Rejected ==
  retErr = "rejected" =>
    /\ pc = "done"
    /\ gets = 0 /\ ~outOpened /\ cbCount = 0
    /\ <<fileExists, fileData>> = file0

C10_Witness ==
  retErr = "rejected" /\ pc = "done" /\ heads = 1 /\ config.poll
    /\ ClientCanResume(config) /\ localSize = remoteSize

C12Classified ==
  /\ readErr \in {"timeout", "canceled"} => readErr = CtxErr(ctxCause)
  /\ retErr \in {"timeout", "canceled"} =>
       /\ ctxDone /\ retErr = CtxErr(ctxCause)
       /\ retErr = "timeout" <=> ctxCause = "deadline"
       /\ retErr = "canceled" => callerCancelled

C12FiredFirst ==
  (ctxCause' = "deadline" /\ ctxCause # "deadline") =>
     ~ctxDone /\ wdTimer = "armed" /\ wdTimer' = "expired"

C12_ErrorClass == []C12Classified /\ [][C12FiredFirst]_vars

C12_Witness ==
  /\ pc = "done" /\ retErr = "timeout" /\ readErr = "timeout"
  /\ callerCancelled /\ ctxCause = "deadline"

\* C13 as stated: once the copy loop has ended (and the deferred t.Stop() has
\* returned), PollFunction is entered exactly once more, by the final update, and
\* with the final value of the counter.
C13AfterStop == {"d_snap", "d_call", "d_incall", "d_out", "d_body", "d_wdog", "done"}

C13Once ==
  (config.poll /\ outOpened /\ pc \in C13AfterStop /\ cbCount' # cbCount) =>
     pc = "d_call" /\ cbCount' = cbCount + 1 /\ cbLast' = completed

C13_FinalUpdateOnly == [][C13Once]_vars

\* C14 as stated: at no time are two PollFunction invocations of one call executing.
C14_Serialized == cbActive <= 1

\* C15: every Kick (one per counted chunk) puts the deadline a full timeout
\* ahead, and the deadline cancels the merged context only in a step that starts
\* a full timeout after the last Kick (or after the watchdog's creation): while
\* every gap stays below the timeout no operation ever reports the timeout error.
C15Kick ==
  (pc = "count" /\ pc' # "count" /\ config.timeout > 0) =>
     wdTimer' = "armed" /\ wdLeft' = config.timeout /\ idle' = 0

C15NoEarlyAbort ==
  (idle < config.timeout /\ ctxCause # "deadline") =>
     ctxCause' # "deadline" /\ readErr' # "timeout" /\ retErr' # "timeout"

C15_KeptAlive == [][C15Kick /\ C15NoEarlyAbort]_vars

C15_Witness ==
  /\ pc = "read" /\ config.timeout = MaxTimeout /\ wdTimer = "armed" /\ ~ctxDone
  /\ completed = 1 /\ Len(stream) = 1 /\ idle = MaxTimeout - 1 /\ wdLeft = 1
  /\ file0 = <<FALSE, <<>>>>

\* C16: with an inactivity timeout > 0 the call never waits for the HEAD answer
\* forever, and once the HEAD has run into the timeout the call has returned
\* the deadline error: no GET was sent, no watchdog created, the file is untouched.
C16HeadTimedOut ==
  retErr = "headtimeout" =>
    /\ pc = "done" /\ config.timeout > 0
    /\ heads = 1 /\ gets = 0 /\ ~outOpened /\ wdTimer = "none"
    /\ <<fileExists, fileData>> = file0

C16_HeadTimeout ==
  /\ []C16HeadTimedOut
  /\ (pc = "head" /\ config.timeout > 0) ~> (pc # "head")

C16_Witness ==
  /\ retErr = "headtimeout" /\ pc = "done" /\ ~callerCancelled
  /\ file0 = <<TRUE, Canon(1)>> /\ content = Canon(MaxRemote)

\* C17: with an inactivity timeout > 0 the watchdog's timer is armed before the
\* GET is sent; a call that waits for the GET response returns even if the
\* server never answers, and once the deadline has cancelled the merged context
\* during that wait the call returns the timeout error without opening the file.
C17Armed ==
  /\ (config.timeout > 0 /\ pc \in {"get", "getwait"}) => wdTimer \in {"armed", "expired"}
  /\ (config.timeout > 0 /\ pc = "get") => gets = 0 /\ idle + wdLeft = config.timeout
  /\ (retErr = "timeout" /\ getStatus = 0) =>
       gets = 1 /\ ~bodyOpened /\ ~outOpened /\ ctxCause = "deadline"

C17_GetTimeout ==
  /\ []C17Armed
  /\ (pc = "getwait" /\ config.timeout > 0) ~> (pc # "getwait")
  /\ (pc = "getwait" /\ ctxCause = "deadline") ~>
       (pc = "done" /\ retErr = "timeout" /\ ~outOpened)

C17_Witness ==
  /\ pc = "done" /\ retErr = "timeout" /\ getStatus = 0 /\ gets = 1 /\ heads = 1
  /\ ~callerCancelled /\ ~outOpened /\ <<fileExists, fileData>> = file0

\* C18 as stated: the merged context exists whenever the HEAD, the GET or a read
\* of the stream is in flight, and a HEAD that was aborted was aborted by it.
C18_OneContext ==
  /\ pc \in {"head", "getwait", "read"} => wdTimer # "none"
  /\ retErr \in {"headcanceled", "headtimeout"} => ctxDone

\* C18: the merged context is created after the HEAD and governs the GET and the
\* reads of the stream: it is cancelled as soon as the caller cancels or the
\* watchdog fires, and the GET or read then in flight ends with the error of the
\* recorded cause. The HEAD runs under the caller's context alone (plus the
\* client timeout): once the caller has cancelled, the HEAD can only fail, with
\* an error of doHeadRequest, and the call returns it.
C18BeforeGet == {"start", "head", "accept", "plan", "wdog"}

C18Governed ==
  /\ pc \in C18BeforeGet => wdTimer = "none" /\ ~ctxDone
  /\ pc \in {"get", "getwait", "open", "pollinit", "read", "write", "count"} =>
       wdTimer # "none"
  /\ wdTimer # "none" => ((callerCancelled \/ wdTimer = "expired") => ctxDone)
  /\ retErr = "headcanceled" => callerCancelled /\ pc = "done" /\ gets = 0 /\ ~ctxDone

C18Aborts ==
  /\ (ctxDone /\ pc \in {"getwait", "read"} /\ pc' # pc) =>
       retErr' = CtxErr(ctxCause) /\ pc' \in {"d_wdog", AfterLoop}
  /\ (callerCancelled /\ pc = "head" /\ pc' # pc) =>
       retErr' \in {"headcanceled", "headtimeout", "headbuild"} /\ pc' = "done"

C18_Contexts == []C18Governed /\ [][C18Aborts]_vars

C18_Witness ==
  /\ retErr = "headcanceled" /\ pc = "done" /\ callerCancelled
  /\ wdTimer = "none" /\ ~ctxDone /\ config.timeout > 0

\* C19: once doHeadRequest has failed because the request could not be built or
\* the transport failed, the call has returned that error: no GET was sent, no
\* watchdog created, the file neither opened nor changed, PollFunction not called.
C19_HeadFailure ==
  retErr \in {"headbuild", "headtransport"} =>
    /\ pc = "done"
    /\ heads = (IF retErr = "headbuild" THEN 0 ELSE 1)
    /\ gets = 0 /\ ~bodyOpened /\ ~outOpened /\ wdTimer = "none" /\ cbCount = 0
    /\ <<fileExists, fileData>> = file0

C19_Witness ==
  /\ retErr = "headtransport" /\ pc = "done" /\ heads = 1 /\ gets = 0
  /\ file0 = <<TRUE, Canon(1)>> /\ content = Canon(MaxRemote) /\ config.poll

\* C20: once the merged context is cancelled (by the watchdog's fire, by Cancel
\* or by the caller), no later fire, Kick, Cancel or caller's cancellation changes
\* that or the recorded cause: the first cancellation decides; a call that has
\* returned leaves the context cancelled and no timer armed.
C20Terminal ==
  /\ ctxDone => ctxDone' /\ ctxCause' = ctxCause
  /\ ctxCause # "none" => ctxDone
  /\ \A c \in {"deadline", "canceled"}, n \in {"deadline", "canceled"} :
       CancelCause(TRUE, c, n) = c /\ CancelCause(FALSE, "none", n) = n

C20_FirstCauseWins ==
  /\ [][C20Terminal]_vars
  /\ []((pc = "done" /\ wdTimer # "none") => ctxDone /\ wdTimer # "armed")

C20_Witness ==
  /\ pc = "done" /\ wdTimer = "expired" /\ ctxCause = "canceled" /\ ~callerCancelled
  /\ retErr = "nil" /\ completed = MaxRemote

\* C21: a watchdog has a timer exactly when InactivityTimeout > 0, and that
\* timer runs (or has fired) for as long as the transfer lasts; with a timeout
\* of 0 there is never a timer, no time is ever counted against the call, the
\* deadline is never recorded and no timeout error is ever reported.
C21Transfer == {"get", "getwait", "open", "pollinit", "read", "write", "count"}

C21_TimerIffTimeout ==
  /\ wdTimer # "none" => (wdTimer # "nil" <=> config.timeout > 0)
  /\ (config.timeout > 0 /\ pc \in C21Transfer) => wdTimer \in {"armed", "expired"}
  /\ config.timeout = 0 =>
       /\ wdTimer \in {"none", "nil"} /\ wdLeft = 0 /\ idle = 0
       /\ ctxCause # "deadline"
       /\ readErr # "timeout" /\ retErr \notin {"timeout", "headtimeout"}

C21_Witness ==
  /\ config.timeout = 0 /\ pc = "done" /\ retErr = "nil" /\ wdTimer = "nil"
  /\ completed = MaxRemote /\ fileData = content /\ ctxCause = "canceled"

\* C22 as stated: with resume allowed, a non-empty local file shorter than the
\* known remote size and a server that is not range-capable, the GET carries no
\* Range header, the file is opened truncated, and the counter and the first
\* progress value start at 0.
C22Case ==
  /\ ClientCanResume(config) /\ ~serverCanResume
  /\ 0 < localSize /\ localSize < remoteSize

C22_StartFresh ==
  C22Case =>
    /\ gets > 0 => rangeHdr = Unknown /\ ~resumeDownload
    /\ outOpened => IsPrefix(fileData, ResponseBody(getStatus, rangeHdr, content))
    /\ pc \in {"wdog", "get", "getwait", "open", "pollinit"} => completed = 0
    /\ cbCount > 0 => cbFirst = 0

\* C23: with resume allowed and a local file longer than the known remote size,
\* the counter and the first progress value start at 0, the GET carries no Range
\* header, the file is opened truncated, and when the call has returned nil on a
\* 200 answer the file equals the remote content and the counter its size.
C23Case ==
  /\ ClientCanResume(config) /\ remoteSize # Unknown /\ localSize > remoteSize

C23_StaleLocalFile ==
  C23Case =>
    /\ pc \in {"wdog", "get", "getwait", "open", "pollinit"} => completed = 0
    /\ gets > 0 => rangeHdr = Unknown /\ ~resumeDownload
    /\ outOpened => IsPrefix(fileData, ResponseBody(getStatus, rangeHdr, content))
    /\ cbCount > 0 => cbFirst = 0
    /\ (pc = "done" /\ retErr = "nil") =>
         /\ gets = 1 /\ outOpened
         /\ getStatus = 200 => fileData = content /\ completed = remoteSize

C23_Witness ==
  /\ C23Case /\ pc = "done" /\ retErr = "nil" /\ getStatus = 200 /\ serverCanResume
  /\ file0 = <<TRUE, Junk(MaxRemote + 1)>> /\ content = Canon(MaxRemote)
  /\ fileData = content /\ config.poll /\ cbFirst = 0 /\ cbLast = MaxRemote

\* C24: after a HEAD that reported no size, the capability flag is false, the
\* counter and the first progress value start at 0, the GET carries no Range
\* header, the file is opened truncated, and the call never returns nil without
\* a GET and an opened file; on a 200 answer a nil return leaves the remote content.
C24HeadErrors ==
  {"headbuild", "headtransport", "headdrain", "headclose", "headtimeout", "headcanceled"}

C24Case ==
  /\ remoteSize = Unknown /\ pc \notin {"start", "head"}
  /\ retErr \notin C24HeadErrors

C25ReadErrors == {"read", "timeout", "canceled"}

C25Requests ==
  /\ heads <= 1 /\ gets <= 1
  /\ gets > 0 => heads = 1 /\ pc \notin {"start", "head", "accept", "plan", "wdog", "get"}
  /\ readErr \in C25ReadErrors =>
       \/ pc \in {"write", "count"} /\ retErr = "pending"
       \/ retErr \in {readErr, "write"}

C25Step ==
  /\ (pc = "read" /\ readErr' \in C25ReadErrors) =>
       IF buff' = <<>> THEN pc' = AfterLoop /\ retErr' = readErr' ELSE pc' = "write"
  /\ (pc = "count" /\ pc' # pc /\ readErr \in C25ReadErrors) =>
       pc' = AfterLoop /\ retErr' = readErr
  /\ (pc = "write" /\ retErr' = "write") => pc' = AfterLoop
  /\ retErr # "pending" =>
       /\ retErr' = retErr /\ heads' = heads /\ gets' = gets
       /\ pc' \notin {"head", "getwait", "read", "write", "count"}
       /\ buff' = buff /\ readErr' = readErr /\ fileData' = fileData

C25_NoRetry == []C25Requests /\ [][C25Step]_vars

C25_Witness ==
  /\ pc = "done" /\ retErr = "read" /\ readErr = "read" /\ heads = 1 /\ gets = 1
  /\ file0 = <<FALSE, <<>>>> /\ content = Canon(MaxRemote) /\ fileData = Canon(1)
  /\ completed = 1

\* C26: every chunk that was read (n > 0) and written in full is then counted,
\* the counter advancing by exactly n, and the watchdog kicked, whether the Read
\* also reported nil, EOF or an error, which ends the loop only after that; the
\* counter changes in no other step of the loop, so that it always equals its
\* initial value plus the bytes this call wrote; a Read of 0 bytes and no error
\* leaves the loop where it was.
C26Counted ==
  (outOpened /\ retErr # "write") =>
     completed + (IF pc = "count" THEN Len(buff) ELSE 0)
       = InitialCompleted(config, localSize, remoteSize)
           + Len(fileData) - Len(OpenedData(resumeDownload, file0[2]))

C26Step ==
  /\ (pc = "read" /\ pc' = "write") => buff' # <<>> /\ completed' = completed
  /\ (pc = "write" /\ pc' = "count") =>
       fileData' = fileData \o buff /\ completed' = completed /\ buff' = buff
  /\ (pc = "count" /\ pc' # pc) =>
       /\ buff # <<>> /\ completed' = completed + Len(buff)
       /\ config.timeout > 0 => wdTimer' = "armed" /\ wdLeft' = config.timeout
       /\ pc' = (IF readErr = "none" THEN "read" ELSE AfterLoop)
       /\ retErr' = (CASE readErr = "none" -> retErr [] readErr = "EOF" -> "nil"
                        [] OTHER -> readErr)
  /\ (pc = "read" /\ ~ctxDone /\ pc' = "read" /\ ctxDone' = ctxDone) =>
       /\ completed' = completed /\ fileData' = fileData /\ stream' = stream
       /\ retErr' = retErr /\ wdTimer' = wdTimer

C26_ChunkCounted == []C26Counted /\ [][C26Step]_vars

C26_Witness ==
  /\ pc = "done" /\ retErr = "read" /\ readErr = "read" /\ config.timeout > 0
  /\ file0 = <<FALSE, <<>>>> /\ content = Canon(MaxRemote) /\ fileData = content
  /\ completed = MaxRemote

\* C27: a Write that fails ends the loop in that step with the write error: the
\* chunk is not counted, the watchdog's timer is not reset, and from then on
\* nothing is read, written or counted.
C27Failed ==
  retErr = "write" =>
    /\ pc \notin {"read", "write", "count"} /\ buff # <<>>
    /\ completed <= InitialCompleted(config, localSize, remoteSize)
                       + Len(fileData) - Len(OpenedData(resumeDownload, file0[2]))
    /\ completed + Len(buff) > InitialCompleted(config, localSize, remoteSize)
                       + Len(fileData) - Len(OpenedData(resumeDownload, file0[2]))

C27Step ==
  /\ (pc = "write" /\ retErr' = "write") =>
       /\ pc' = AfterLoop /\ completed' = completed
       /\ wdTimer' = wdTimer /\ wdLeft' = wdLeft /\ idle' = idle
       /\ stream' = stream /\ IsPrefix(fileData, fileData') /\ fileData' # fileData \o buff
  /\ retErr = "write" =>
       /\ retErr' = retErr /\ completed' = completed /\ fileData' = fileData
       /\ buff' = buff /\ readErr' = readErr /\ stream' \in {stream, <<>>}
       /\ wdTimer' # wdTimer => wdTimer' \in {"expired", "stopped", "late"}

C27_WriteError == []C27Failed /\ [][C27Step]_vars

C27_Witness ==
  /\ pc = "done" /\ retErr = "write" /\ config.timeout > 0
  /\ file0 = <<FALSE, <<>>>> /\ content = Canon(MaxRemote)
  /\ fileData = Canon(1) /\ completed = 1 /\ buff # <<>>

\* C28: once the head probe is over, a response body that the HEAD request
\* yielded has been closed, whichever way the probe ended (drained, drain
\* failed, close failed).
C28_HeadBodyClosed ==
  (pc # "head" /\ headBody # "none") => headBody = "closed"

\* C29: every return after the watchdog was created passes through the deferred
\* wdog.Cancel(): at the return the merged context is cancelled with a cause and
\* the timer, when there is one, is no longer pending; this holds for each exit
\* (GET build or transport failure, bad status, open failure, loop outcomes).
C29TornDown ==
  (pc = "done" /\ wdTimer # "none") =>
    /\ ctxDone /\ ctxCause \in {"canceled", "deadline"}
    /\ wdLeft = 0
    /\ IF config.timeout > 0 THEN wdTimer \in {"stopped", "expired", "late"}
                             ELSE wdTimer = "nil"
    /\ retErr \notin {"pending", "rejected", "headbuild", "headtransport",
                       "headdrain", "headclose", "headcanceled", "headtimeout"}

C29Step ==
  /\ (wdTimer = "none" /\ wdTimer' # "none") => (pc = "wdog" /\ pc' # "done" /\ ~ctxDone)
  /\ (wdTimer # "none" /\ pc # "done" /\ pc' = "done") =>
       /\ pc = "d_wdog" /\ ctxDone'
       /\ wdTimer' \in StoppedTimer(wdTimer, wdLeft) /\ wdTimer' # "armed"
       /\ retErr' = retErr
  /\ (wdTimer # "none" /\ pc # "done" /\ pc' = "d_wdog") =>
       retErr' \in {"getbuild", "get", "status", "open", "nil", "read", "write",
                    "canceled", "timeout"}

C29_TornDown == []C29TornDown /\ [][C29Step]_vars

C29_Witness ==
  /\ pc = "done" /\ retErr = "open" /\ config.timeout > 0
  /\ wdTimer = "stopped" /\ ctxDone /\ ctxCause = "canceled" /\ ~callerCancelled

\* C30: once the reporter exists the counter changes only in the copy loop's
\* locked increment and only upwards; each snapshot of update() (initial,
\* intermediate, final) is the counter's value in one step of its own; and no
\* snapshot taken so far, delivered or not yet, exceeds the counter, so a
\* snapshot is never smaller than one taken before it.
C30Snapshots ==
  /\ pollTimer # "none" => cbCount > 0 /\ cbFirst <= completed /\ cbLast <= completed
  /\ pg = "call" => pgSnap <= completed
  /\ pc = "d_call" => mainSnap <= completed

C30Step ==
  /\ (pollTimer # "none" /\ completed' # completed) =>
       /\ pc = "count" /\ completed' = completed + Len(buff) /\ completed' > completed
       /\ pgSnap' = pgSnap /\ mainSnap' = mainSnap /\ cbLast' = cbLast
  /\ (pc = "pollinit" /\ pc' # pc) =>
       /\ cbLast' = completed /\ completed' = completed /\ cbCount = 0
  /\ (pg # "call" /\ pg' = "call") =>
       /\ pgSnap' = completed /\ completed' = completed
       /\ pgSnap' >= cbFirst /\ (pc = "d_call" => pgSnap' >= mainSnap)
  /\ (pc = "d_snap" /\ pc' # pc) =>
       /\ mainSnap' = completed /\ completed' = completed
       /\ mainSnap' >= cbLast /\ (pg = "call" => mainSnap' >= pgSnap)

C30_LockedCounter == []C30Snapshots /\ [][C30Step]_vars

C30_Witness ==
  /\ cbCount = 1 /\ cbFirst = 0
  /\ pg = "call" /\ pgSnap = 1
  /\ pc = "d_call" /\ mainSnap = 2 /\ completed = 2

\* C31 as stated: after DownloadWithConfig has returned, PollFunction is not
\* entered again and the periodic poll timer is not armed, however the timer's
\* func (update, then t.Reset) interleaves with the deferred t.Stop() and final
\* update.
C31Quiet == pc = "done" => cbCount' = cbCount

C31_QuietAfterReturn ==
  /\ [](pc = "done" => pollTimer # "armed")
  /\ [][C31Quiet]_vars

\* C32 as stated: right after the output file is opened and after each counted
\* chunk (the loop is about to read again) the counter equals the length of the
\* output file.
C32_CounterIsFileLength ==
  (outOpened /\ pc \in {"pollinit", "read"}) => completed = Len(fileData)

\* C33: the target file changes only in OpenFile and Write, which come after a
\* GET response with an accepted status; a call that ends by HEAD failure, veto,
\* the already-complete shortcut, GET failure or a refused status leaves the
\* file's existence and content as they were when the call started.
C33EarlyExits ==
  {"headbuild", "headtransport", "headdrain", "headclose", "headcanceled",
   "headtimeout", "rejected", "getbuild", "get", "status"}

C33Untouched ==
  /\ ~outOpened => (fileExists = file0[1] /\ fileData = file0[2])
  /\ (pc = "done" /\ (retErr \in C33EarlyExits \/ (retErr = "nil" /\ gets = 0))) =>
       (~outOpened /\ fileExists = file0[1] /\ fileData = file0[2])
  /\ outOpened =>
       (bodyOpened /\ gets = 1
          /\ (config.noErrStatus \/ getStatus \in {200, 206}))

C33Step ==
  (fileExists' # fileExists \/ fileData' # fileData) =>
     /\ pc \in {"open", "write"}
     /\ bodyOpened /\ (config.noErrStatus \/ getStatus \in {200, 206})

C33_FileUntouched == []C33Untouched /\ [][C33Step]_vars

C33_Witness ==
  /\ pc = "done" /\ retErr = "status" /\ getStatus = 404 /\ ~config.noErrStatus
  /\ file0 = <<FALSE, <<>>>> /\ ~fileExists /\ fileData = <<>> /\ ~outOpened

\* C34 as stated: when the call returns nil and HEAD supplied the size (the GET,
\* if any, was not answered with an error status), the target file exists and
\* its length is the remote size.
C34_CompleteFileOnSuccess ==
  (pc = "done" /\ retErr = "nil" /\ remoteSize # Unknown /\ getStatus # 404) =>
     (fileExists /\ Len(fileData) = remoteSize)

\* the only way C34 fails: no local file, remote size 0, resume allowed
C34OnlyEmptyAbsent ==
  (pc = "done" /\ retErr = "nil" /\ remoteSize # Unknown /\ getStatus # 404) =>
     \/ fileExists /\ Len(fileData) = remoteSize
     \/ ~file0[1] /\ remoteSize = 0 /\ ~config.noResume /\ gets = 0

\* C35: once a Read has returned io.EOF the context is not consulted again: the
\* call returns nil (or the error of the last chunk's Write), never a
\* cancellation or timeout error, also when the watchdog fires or the caller
\* cancels after that Read.
C35AfterEOF ==
  readErr = "EOF" =>
    /\ retErr \in {"pending", "nil", "write"}
    /\ pc = "done" => retErr \in {"nil", "write"}
    /\ retErr = "write" => (buff # <<>> /\ stream = <<>>)

C35Step ==
  readErr = "EOF" =>
    /\ readErr' = "EOF"
    /\ retErr' \in {retErr, "nil", "write"}
    /\ retErr = "nil" => retErr' = "nil"

C35_EOFWins == []C35AfterEOF /\ [][C35Step]_vars

C35_Witness ==
  /\ pc = "done" /\ readErr = "EOF" /\ retErr = "nil"
  /\ callerCancelled /\ ctxCause = "canceled"
  /\ file0 = <<FALSE, <<>>>> /\ content = Canon(MaxRemote) /\ fileData = content

\* the watchdog, too, can fire between the last Read and the return
C35FiredAfterEOF ==
  pc = "done" /\ readErr = "EOF" /\ retErr = "nil" /\ ctxCause = "deadline"

====
